---- MODULE Spec2Model ----
(***************************************************************************)
(* git-fad: fuzzy-select one unstaged/untracked file and stage it.         *)
(*                                                                         *)
(* Model of src/src/main.rs (main, stage_paths_libgit2) and of             *)
(* src/src/git/mod.rs (stage_paths_libgit2).                               *)
(*                                                                         *)
(* Strings (tokens, paths) are sequences of byte values, so that length,   *)
(* byte-wise lexicographic order, case folding and path components are     *)
(* computed as the Rust code computes them.  The universes below use       *)
(*   ' ' = 32   '!' = 33   '*' = 42   '.' = 46   '/' = 47   'A' = 65       *)
(*   'a' = 97   'b' = 98   'r' = 114  'x' = 120                            *)
(* and the matcher's pattern syntax also reads '$' = 36, the quote = 39,   *)
(* the backslash = 92 and '^' = 94.                                        *)
(*                                                                         *)
(* The score the nucleo matcher gives a (token, path) pair is a pure       *)
(* function of the pair; its value is left open: scoreOf is drawn in Init  *)
(* from every function into ScoreUniverse, so whatever is checked holds    *)
(* for every scoring.  Which pairs match at all is computed from the       *)
(* pattern syntax (atoms, inversion, kinds).  Aggregate scores stay far    *)
(* below 2^32                                                              *)
(* (nucleo scores an atom in 16 bits and the argument vector is bounded by *)
(* the OS), so the u32 addition is modelled without wrap-around.           *)
(***************************************************************************)
EXTENDS Integers, Sequences, FiniteSets, TLC

\* ------------------------------------------------------------------ bounds
MaxTokens == 3
MaxStagePaths == 3

\* ------------------------------------------------------------- universes
P_a == <<97>>
P_b == <<98>>
P_ab == <<97, 98>>
P_Ab == <<65, 98>>
T_a == <<97>>
T_a_b == <<97, 32, 98>>
T_not_a == <<33, 97>>
T_star == <<42>>
T_blank == <<32>>
AbsIn == <<47, 114, 47, 97>>
AbsDot == <<47, 114, 47, 46, 47, 97>>
AbsOut == <<47, 114, 120, 47, 97>>
RepoPath == <<47, 114>>
NoPath == <<>>

PathUniverse == {P_a, P_b, P_ab, P_Ab}
TokenUniverse == {T_a, T_a_b, T_not_a, T_star, T_blank}
StagePathUniverse == {P_a, P_b, AbsIn, AbsDot, AbsOut}
ScoreUniverse == {1, 2}

RECURSIVE SeqsUpTo(_, _)
SeqsUpTo(S, n) ==
    IF n = 0 THEN {<<>>}
    ELSE LET shorter == SeqsUpTo(S, n - 1)
         IN shorter \cup {Append(s, x) : s \in {t \in shorter : Len(t) = n - 1}, x \in S}

Range(s) == {s[k] : k \in 1..Len(s)}

\* ------------------------------------------------- nucleo: Pattern, match
\* char folding done by CaseMatching::Ignore (ASCII part)
Lower(c) == IF c \in 65..90 THEN c + 32 ELSE c

LowerStr(str) == [k \in 1..Len(str) |-> Lower(str[k])]

IsWhite(c) == c \in 9..13 \/ c = 32

DropFirst(str, n) == SubSeq(str, n + 1, Len(str))
DropLast(str, n) == SubSeq(str, 1, Len(str) - n)

\* pattern_atoms: split the token at every ' ' not preceded by a backslash
\* (empty pieces included); saw tells whether the previous char was '\'
RECURSIVE AtomsFrom(_, _, _, _, _)
AtomsFrom(tok, k, cur, saw, acc) ==
    IF k > Len(tok) THEN Append(acc, cur)
    ELSE IF tok[k] = 32 /\ ~saw
         THEN AtomsFrom(tok, k + 1, <<>>, FALSE, Append(acc, cur))
         ELSE AtomsFrom(tok, k + 1, Append(cur, tok[k]), tok[k] = 92, acc)

PatternAtoms(tok) == AtomsFrom(tok, 1, <<>>, FALSE, <<>>)

\* Atom::new_inner with escape_whitespace: every "\ " becomes " "
RECURSIVE UnescapeFrom(_, _)
UnescapeFrom(str, k) ==
    IF k > Len(str) THEN <<>>
    ELSE IF str[k] = 92 /\ k < Len(str) /\ str[k + 1] = 32
         THEN <<32>> \o UnescapeFrom(str, k + 2)
         ELSE <<str[k]>> \o UnescapeFrom(str, k + 1)

\* Atom::parse, step 1: a leading '!' inverts the atom; backslash-'!' is a
\* literal '!'
IsInverted(raw) == Len(raw) >= 1 /\ raw[1] = 33

StripInvert(raw) ==
    IF IsInverted(raw) \/ (Len(raw) >= 2 /\ raw[1] = 92 /\ raw[2] = 33)
    THEN DropFirst(raw, 1) ELSE raw

\* Atom::parse, step 2: a leading '^' makes a prefix atom, a leading quote
\* (39) a substring atom; escaped with a backslash they are literal
HeadKind(atom) ==
    IF Len(atom) >= 1 /\ atom[1] = 94 THEN "prefix"
    ELSE IF Len(atom) >= 1 /\ atom[1] = 39 THEN "substring"
    ELSE "fuzzy"

StripHead(atom) ==
    IF \/ Len(atom) >= 1 /\ atom[1] \in {94, 39}
       \/ Len(atom) >= 2 /\ atom[1] = 92 /\ atom[2] \in {94, 39}
    THEN DropFirst(atom, 1) ELSE atom

\* Atom::parse, step 3: a trailing '$' turns fuzzy into postfix and any other
\* kind into exact; backslash-'$' is a literal '$', appended after unescaping
EndsEscDollar(atom) ==
    Len(atom) >= 2 /\ atom[Len(atom) - 1] = 92 /\ atom[Len(atom)] = 36

EndsDollar(atom) ==
    ~EndsEscDollar(atom) /\ Len(atom) >= 1 /\ atom[Len(atom)] = 36

StripTail(atom) ==
    IF EndsEscDollar(atom) THEN DropLast(atom, 2)
    ELSE IF EndsDollar(atom) THEN DropLast(atom, 1) ELSE atom

TailKind(kind, dollar) ==
    IF dollar THEN (IF kind = "fuzzy" THEN "postfix" ELSE "exact") ELSE kind

\* Atom::parse, step 4: an inverted fuzzy atom is a substring atom
FinalKind(kind, invert) ==
    IF invert /\ kind = "fuzzy" THEN "substring" ELSE kind

\* Atom::new_inner: unescape, lower-case, append the escaped '$'
Needle(atom, appendDollar) ==
    LowerStr(UnescapeFrom(atom, 1)) \o (IF appendDollar THEN <<36>> ELSE <<>>)

MakeAtom(invert, headKind, atom) ==
    [kind |-> FinalKind(TailKind(headKind, EndsDollar(atom)), invert),
     needle |-> Needle(StripTail(atom), EndsEscDollar(atom)),
     negative |-> invert]

ParseHead(invert, atom) == MakeAtom(invert, HeadKind(atom), StripHead(atom))

ParseAtom(raw) == ParseHead(IsInverted(raw), StripInvert(raw))

\* Pattern::parse: the atoms of the token whose needle is not empty
KeepAtom(atom) == IF atom.needle = <<>> THEN <<>> ELSE <<atom>>

RECURSIVE ParseFrom(_, _)
ParseFrom(raws, k) ==
    IF k > Len(raws) THEN <<>>
    ELSE KeepAtom(ParseAtom(raws[k])) \o ParseFrom(raws, k + 1)

ParsePattern(tok) == ParseFrom(PatternAtoms(tok), 1)

\* fuzzy_match finds a match: the needle's chars occur in the haystack in
\* order, case folded
RECURSIVE IsSubseqFrom(_, _, _, _)
IsSubseqFrom(needle, hay, n, h) ==
    IF n > Len(needle) THEN TRUE
    ELSE IF h > Len(hay) THEN FALSE
    ELSE IF Lower(needle[n]) = Lower(hay[h])
         THEN IsSubseqFrom(needle, hay, n + 1, h + 1)
         ELSE IsSubseqFrom(needle, hay, n, h + 1)

FuzzyMatches(needle, path) == IsSubseqFrom(needle, path, 1, 1)

\* the needle stands in the haystack at offset off (case folded)
OccursAt(needle, path, off) ==
    /\ off + Len(needle) <= Len(path)
    /\ \A k \in 1..Len(needle) : Lower(needle[k]) = Lower(path[off + k])

SubstringMatches(needle, path) ==
    \E off \in 0..Len(path) : OccursAt(needle, path, off)

\* prefix_match / postfix_match / exact_match skip the haystack's leading
\* (trailing) whitespace unless the needle starts (ends) with whitespace
RECURSIVE LeadingWhite(_, _)
LeadingWhite(path, k) ==
    IF k <= Len(path) /\ IsWhite(path[k]) THEN 1 + LeadingWhite(path, k + 1) ELSE 0

RECURSIVE TrailingWhite(_, _)
TrailingWhite(path, k) ==
    IF k >= 1 /\ IsWhite(path[k]) THEN 1 + TrailingWhite(path, k - 1) ELSE 0

LeadSkip(needle, path) ==
    IF IsWhite(needle[1]) THEN 0 ELSE LeadingWhite(path, 1)

TrailSkip(needle, path) ==
    IF IsWhite(needle[Len(needle)]) THEN 0 ELSE TrailingWhite(path, Len(path))

PrefixMatches(needle, path) == OccursAt(needle, path, LeadSkip(needle, path))

OccursAtOrBefore(needle, path, off) == off >= 0 /\ OccursAt(needle, path, off)

PostfixMatches(needle, path) ==
    OccursAtOrBefore(needle, path, Len(path) - TrailSkip(needle, path) - Len(needle))

ExactMatches(needle, path) ==
    /\ Len(path) - LeadSkip(needle, path) - TrailSkip(needle, path) = Len(needle)
    /\ OccursAt(needle, path, LeadSkip(needle, path))

\* the matcher call Atom::score makes for the atom's kind finds a match
KindMatches(kind, needle, path) ==
    CASE kind = "fuzzy" -> FuzzyMatches(needle, path)
      [] kind = "substring" -> SubstringMatches(needle, path)
      [] kind = "prefix" -> PrefixMatches(needle, path)
      [] kind = "postfix" -> PostfixMatches(needle, path)
      [] OTHER -> ExactMatches(needle, path)

\* Atom::score is Some: the atom's kind matches, or, for an inverted atom,
\* does not match
AtomAccepts(atom, path) ==
    KindMatches(atom.kind, atom.needle, path) # atom.negative

\* ParsePattern, looked up for the tokens of the universe
ParsedUniverse == [t \in TokenUniverse |-> ParsePattern(t)]

Parsed(tok) ==
    IF tok \in TokenUniverse THEN ParsedUniverse[tok] ELSE ParsePattern(tok)

\* Pattern::score is Some: every atom accepts the haystack
AllAccept(atoms, path) == \A k \in 1..Len(atoms) : AtomAccepts(atoms[k], path)

Accepts(tok, path) == AllAccept(Parsed(tok), path)

\* Accepts, looked up for the tokens and paths of the universes
AcceptsUniverse ==
    [pr \in TokenUniverse \X PathUniverse |-> Accepts(pr[1], pr[2])]

PatternMatches(tok, path) ==
    IF tok \in TokenUniverse /\ path \in PathUniverse
    THEN AcceptsUniverse[<<tok, path>>]
    ELSE Accepts(tok, path)

\* the pattern has an atom that is not inverted; inverted atoms score 0
SomePositive(atoms) == \E k \in 1..Len(atoms) : ~atoms[k].negative

HasPositiveAtom(tok) == SomePositive(Parsed(tok))

\* pattern.match_list(&hay_refs, &mut matcher) as the map it is inserted into:
\* a pattern without atoms keeps every item with score 0, otherwise the items
\* every atom accepts, each with the sum of the atoms' scores (0 when all
\* atoms are inverted).
MatchList(tok, hay, sc) ==
    IF Parsed(tok) = <<>>
    THEN [p \in hay |-> 0]
    ELSE [p \in {q \in hay : PatternMatches(tok, q)} |->
            IF HasPositiveAtom(tok) THEN sc[<<tok, p>>] ELSE 0]

\* --------------------------------------------------------- main: the fold
\* variant: the retained entry keeps its old total (the `+=` is missing)
RetainNoAdd(cum, this_map) ==
    [p \in {q \in DOMAIN cum : q \in DOMAIN this_map} |-> cum[p]]

\* variant: the retained entry takes the new token's score (`=` for `+=`)
RetainOverwrite(cum, this_map) ==
    [p \in {q \in DOMAIN cum : q \in DOMAIN this_map} |-> this_map[p]]

\* cumulative.retain(|p, total| this_map.get(p).map(|s| *total += s))
Retain(cum, this_map) ==
    [p \in {q \in DOMAIN cum : q \in DOMAIN this_map} |-> cum[p] + this_map[p]]

\* the whole loop of main on a token list: match tells whether the run gets
\* past the loop and the empty check with candidates left, map is then the
\* final cumulative map
RECURSIVE AggregateFrom(_, _, _, _, _, _)
AggregateFrom(toks, hay, sc, k, cum, isFirst) ==
    IF k > Len(toks)
    THEN [match |-> DOMAIN cum # {}, map |-> cum]
    ELSE LET tm == MatchList(toks[k], hay, sc)
         IN IF DOMAIN tm = {}
            THEN [match |-> FALSE, map |-> cum]
            ELSE IF isFirst
            THEN AggregateFrom(toks, hay, sc, k + 1, tm, FALSE)
            ELSE LET kept == Retain(cum, tm)
                 IN IF DOMAIN kept = {}
                    THEN [match |-> FALSE, map |-> kept]
                    ELSE AggregateFrom(toks, hay, sc, k + 1, kept, FALSE)

Aggregate(toks, hay, sc) ==
    AggregateFrom(toks, hay, sc, 1, [p \in {} |-> 0], TRUE)

\* ------------------------------------------------------ main: the selector
Cmp(a, b) == IF a < b THEN -1 ELSE IF a > b THEN 1 ELSE 0

\* Ordering::then_with
ThenWith(o, next) == IF o # 0 THEN o ELSE next

\* <str as Ord>::cmp, byte-wise lexicographic
RECURSIVE StrCmpFrom(_, _, _)
StrCmpFrom(a, b, k) ==
    IF k > Len(a) /\ k > Len(b) THEN 0
    ELSE IF k > Len(a) THEN -1
    ELSE IF k > Len(b) THEN 1
    ELSE IF a[k] # b[k] THEN Cmp(a[k], b[k])
    ELSE StrCmpFrom(a, b, k + 1)

StrCmp(a, b) == StrCmpFrom(a, b, 1)

\* variant: the length comparison is not reversed (longer path wins)
CompareLongerWins(x, y) ==
    ThenWith(ThenWith(Cmp(x[2], y[2]), Cmp(Len(x[1]), Len(y[1]))),
             StrCmp(x[1], y[1]))

\* the closure given to max_by; x, y are <<path, score>>
Compare(x, y) ==
    ThenWith(ThenWith(Cmp(x[2], y[2]), Cmp(Len(y[1]), Len(x[1]))),
             StrCmp(x[1], y[1]))

\* Iterator::max_by: fold keeping the later item unless the earlier is Greater
RECURSIVE MaxByFrom(_, _, _)
MaxByFrom(items, k, best) ==
    IF k > Len(items) THEN best
    ELSE MaxByFrom(items, k + 1,
                   IF Compare(best, items[k]) = 1 THEN best ELSE items[k])

MaxBy(items) == MaxByFrom(items, 2, items[1])

\* every order in which HashMap::into_iter may yield the entries of a map
RECURSIVE OrdersOf(_)
OrdersOf(S) ==
    IF S = {} THEN {<<>>}
    ELSE UNION {{<<x>> \o rest : rest \in OrdersOf(S \ {x})} : x \in S}

IterOrders(map) == OrdersOf({<<p, map[p]>> : p \in DOMAIN map})

\* ------------------------------------------------- std::path on byte seqs
IsAbsolute(p) == Len(p) > 0 /\ p[1] = 47

\* the maximal runs of non-'/' bytes of p, as <<first, last>> positions
RECURSIVE SpansFrom(_, _, _, _)
SpansFrom(p, k, start, acc) ==
    IF k > Len(p)
    THEN IF start = 0 THEN acc ELSE Append(acc, <<start, Len(p)>>)
    ELSE IF p[k] = 47
         THEN SpansFrom(p, k + 1, 0, IF start = 0 THEN acc ELSE Append(acc, <<start, k - 1>>))
         ELSE SpansFrom(p, k + 1, IF start = 0 THEN k ELSE start, acc)

\* a span Path::components yields (the root apart): a "." is dropped unless
\* it begins a relative path
IsComponent(p, sp) == ~(sp[2] = sp[1] /\ p[sp[1]] = 46) \/ sp[1] = 1

RECURSIVE KeepFrom(_, _, _)
KeepFrom(p, spans, k) ==
    IF k > Len(spans) THEN <<>>
    ELSE (IF IsComponent(p, spans[k]) THEN <<spans[k]>> ELSE <<>>)
         \o KeepFrom(p, spans, k + 1)

ComponentSpans(p) == KeepFrom(p, SpansFrom(p, 1, 0, <<>>), 1)

Components(p) ==
    LET spans == ComponentSpans(p)
    IN [k \in 1..Len(spans) |-> SubSeq(p, spans[k][1], spans[k][2])]

\* Components::as_path after n components were consumed: the rest of the
\* original bytes, from the next component to the last one
RestAfter(p, n) ==
    LET spans == ComponentSpans(p)
    IN IF Len(spans) <= n THEN <<>>
       ELSE SubSeq(p, spans[n + 1][1], spans[Len(spans)][2])

\* Components::as_path before any component was consumed: the original bytes
\* up to the last component, the root kept
WholePath(p) ==
    LET spans == ComponentSpans(p)
    IN IF Len(spans) = 0
       THEN (IF IsAbsolute(p) THEN <<47>> ELSE <<>>)
       ELSE SubSeq(p, 1, spans[Len(spans)][2])

\* Path::strip_prefix: component-wise, root included; a base without root and
\* without components consumes nothing and leaves the whole path
StripPrefix(p, base) ==
    LET pc_ == Components(p)
        bc == Components(base)
    IN IF ~IsAbsolute(base) /\ Len(bc) = 0
       THEN [ok |-> TRUE, rel |-> WholePath(p)]
       ELSE IF /\ IsAbsolute(p) = IsAbsolute(base)
               /\ Len(bc) <= Len(pc_)
               /\ \A k \in 1..Len(bc) : pc_[k] = bc[k]
            THEN [ok |-> TRUE, rel |-> RestAfter(p, Len(bc))]
            ELSE [ok |-> FALSE, rel |-> NoPath]

\* the `rel` of one loop iteration of stage_paths_libgit2
RelOf(p, repo) ==
    IF IsAbsolute(p) THEN StripPrefix(p, repo) ELSE [ok |-> TRUE, rel |-> p]

\* ------------------------------------------------------------------ state
VARIABLES
    pc,            \* position in main / stage_paths_libgit2
    tokens,        \* env::args().skip(1)
    candidates,    \* paths collect_unstaged_and_untracked yields
    scoreOf,       \* the matcher's score of each (token, path) pair it scores
    i,             \* number of tokens the loop has folded into cumulative
    first,         \* main's `first`
    cumulative,    \* main's `cumulative`
    token_matches, \* main's `token_matches` of the latest iteration
    winner,        \* best_path_str, NoPath before selection
    out,           \* lines printed, in order
    exitCode,      \* -1 while running, 0 Ok(()), 1 Err
    stPaths,       \* stage_paths_libgit2: `paths`
    stK,           \* stage_paths_libgit2: next element of `paths`
    memIndex,      \* in-memory git2::Index: paths added by this call
    diskIndex,     \* persistent index: paths staged by this program
    writes,        \* number of completed index.write()
    stResult       \* "none", "ok" or the error of stage_paths_libgit2

vars == <<pc, tokens, candidates, scoreOf, i, first, cumulative, token_matches,
          winner, out, exitCode, stPaths, stK, memIndex, diskIndex, writes, stResult>>

mainVars == <<tokens, candidates, scoreOf, i, first, cumulative, token_matches,
              winner>>
stageVars == <<stPaths, stK, memIndex, diskIndex, writes, stResult>>

EmptyMap == [p \in {} |-> 0]

Msg(kind, tok, path, score) == [kind |-> kind, tok |-> tok, path |-> path, score |-> score]

\* the pairs whose score the run can read
MatchedPairs(toks, cands) ==
    {pr \in Range(toks) \X cands :
        HasPositiveAtom(pr[1]) /\ PatternMatches(pr[1], pr[2])}

Init ==
    /\ pc = "start"
    /\ tokens \in SeqsUpTo(TokenUniverse, MaxTokens)
    /\ candidates \in SUBSET PathUniverse
    /\ scoreOf \in [MatchedPairs(tokens, candidates) -> ScoreUniverse]
    /\ i = 0
    /\ first = TRUE
    /\ cumulative = EmptyMap
    /\ token_matches = EmptyMap
    /\ winner = NoPath
    /\ out = <<>>
    /\ exitCode = -1
    /\ stPaths = <<>>
    /\ stK = 1
    /\ memIndex = {}
    /\ diskIndex = {}
    /\ writes = 0
    /\ stResult = "none"

Exit(code, msg) ==
    /\ pc' = "done"
    /\ exitCode' = code
    /\ out' = Append(out, msg)

\* ------------------------------------------------------------ main: start
\* no tokens: usage on stderr, Ok(())
Usage ==
    /\ pc = "start"
    /\ tokens = <<>>
    /\ Exit(0, Msg("usage", <<>>, NoPath, 0))
    /\ UNCHANGED <<mainVars, stageVars>>

\* current_dir() or collect_unstaged_and_untracked() fails: propagated by `?`
CollectFails ==
    /\ pc = "start"
    /\ tokens # <<>>
    /\ Exit(1, Msg("error_collect", <<>>, NoPath, 0))
    /\ UNCHANGED <<mainVars, stageVars>>

\* variant: the candidates.is_empty() check is missing
NoCandidatesFallsThrough ==
    /\ pc = "start"
    /\ tokens # <<>>
    /\ candidates = {}
    /\ pc' = "loop"
    /\ UNCHANGED <<mainVars, stageVars, out, exitCode>>

\* candidates.is_empty(): informational message, Ok(())
NoCandidates ==
    /\ pc = "start"
    /\ tokens # <<>>
    /\ candidates = {}
    /\ Exit(0, Msg("no_candidates", <<>>, NoPath, 0))
    /\ UNCHANGED <<mainVars, stageVars>>

Prepare ==
    /\ pc = "start"
    /\ tokens # <<>>
    /\ candidates # {}
    /\ pc' = "loop"
    /\ UNCHANGED <<mainVars, stageVars, out, exitCode>>

\* ------------------------------------------------------- main: the loop
CurTok == tokens[i + 1]

\* variant: a token without matches is skipped instead of ending the run
TokenNoMatchSkips ==
    /\ pc = "loop"
    /\ i < Len(tokens)
    /\ LET tm == MatchList(CurTok, candidates, scoreOf)
       IN /\ DOMAIN tm = {}
          /\ token_matches' = tm
    /\ i' = i + 1
    /\ UNCHANGED <<pc, tokens, candidates, scoreOf, first, cumulative, winner, out,
                   exitCode, stageVars>>

\* variant: the early exit prints the general message, not the token
TokenNoMatchGeneric ==
    /\ pc = "loop"
    /\ i < Len(tokens)
    /\ LET tm == MatchList(CurTok, candidates, scoreOf)
       IN /\ DOMAIN tm = {}
          /\ token_matches' = tm
          /\ Exit(0, Msg("no_match_after", tokens, NoPath, 0))
    /\ UNCHANGED <<tokens, candidates, scoreOf, i, first, cumulative, winner, stageVars>>

\* token_matches.is_empty(): early exit naming the token
TokenNoMatch ==
    /\ pc = "loop"
    /\ i < Len(tokens)
    /\ LET tm == MatchList(CurTok, candidates, scoreOf)
       IN /\ DOMAIN tm = {}
          /\ token_matches' = tm
          /\ Exit(0, Msg("no_match_token", CurTok, NoPath, 0))
    /\ UNCHANGED <<tokens, candidates, scoreOf, i, first, cumulative, winner, stageVars>>

\* first token: cumulative is its map
TokenFirst ==
    /\ pc = "loop"
    /\ i < Len(tokens)
    /\ first
    /\ LET tm == MatchList(CurTok, candidates, scoreOf)
       IN /\ DOMAIN tm # {}
          /\ token_matches' = tm
          /\ cumulative' = tm
    /\ first' = FALSE
    /\ i' = i + 1
    /\ UNCHANGED <<pc, tokens, candidates, scoreOf, winner, out, exitCode, stageVars>>

\* later token: retain the common keys and add; empty result ends the run
TokenRetain ==
    /\ pc = "loop"
    /\ i < Len(tokens)
    /\ ~first
    /\ LET tm == MatchList(CurTok, candidates, scoreOf)
           cum == Retain(cumulative, tm)
       IN /\ DOMAIN tm # {}
          /\ token_matches' = tm
          /\ cumulative' = cum
          /\ i' = i + 1
          /\ IF DOMAIN cum = {}
             THEN Exit(0, Msg("no_match_after", tokens, NoPath, 0))
             ELSE UNCHANGED <<pc, out, exitCode>>
    /\ UNCHANGED <<tokens, candidates, scoreOf, first, winner, stageVars>>

\* ------------------------------------------------- main: select and stage
\* variant: the entry staged is the first one iterated, not the selected one
SelectStagesFirstItem ==
    /\ pc = "loop"
    /\ i = Len(tokens)
    /\ IF DOMAIN cumulative = {}
       THEN /\ Exit(0, Msg("no_match_query", tokens, NoPath, 0))
            /\ UNCHANGED <<winner, stPaths>>
       ELSE \E items \in IterOrders(cumulative) :
              LET best == MaxBy(items)
              IN /\ winner' = best[1]
                 /\ out' = Append(out, Msg("best", tokens, best[1], best[2]))
                 /\ stPaths' = <<items[1][1]>>
                 /\ pc' = "stage_open"
                 /\ UNCHANGED exitCode
    /\ UNCHANGED <<tokens, candidates, scoreOf, i, first, cumulative, token_matches,
                   stK, memIndex, diskIndex, writes, stResult>>

\* after the loop: the empty check, max_by over the map in any iteration
\* order, "Best match", and the call stage_paths_libgit2(&repo_path, &[path])
Select ==
    /\ pc = "loop"
    /\ i = Len(tokens)
    /\ IF DOMAIN cumulative = {}
       THEN /\ Exit(0, Msg("no_match_query", tokens, NoPath, 0))
            /\ UNCHANGED <<winner, stPaths>>
       ELSE \E items \in IterOrders(cumulative) :
              LET best == MaxBy(items)
              IN /\ winner' = best[1]
                 /\ out' = Append(out, Msg("best", tokens, best[1], best[2]))
                 /\ stPaths' = <<best[1]>>
                 /\ pc' = "stage_open"
                 /\ UNCHANGED exitCode
    /\ UNCHANGED <<tokens, candidates, scoreOf, i, first, cumulative, token_matches,
                   stK, memIndex, diskIndex, writes, stResult>>

\* ---------------------------------------------------- stage_paths_libgit2
StageReturn(res) ==
    /\ stResult' = res
    /\ pc' = "stage_ret"

\* Repository::open and repo.index(); the in-memory index starts from disk
StageOpen ==
    /\ pc = "stage_open"
    /\ \E ok \in BOOLEAN :
          IF ok
          THEN /\ pc' = "stage_loop"
               /\ memIndex' = diskIndex
               /\ stK' = 1
               /\ UNCHANGED stResult
          ELSE /\ StageReturn("err_open")
               /\ UNCHANGED <<memIndex, stK>>
    /\ UNCHANGED <<mainVars, out, exitCode, stPaths, diskIndex, writes>>

\* variant: the index is written inside the loop, after every add_path
StageAddPathWritesEach ==
    /\ pc = "stage_loop"
    /\ stK <= Len(stPaths)
    /\ LET r == RelOf(stPaths[stK], RepoPath)
       IN IF ~r.ok
          THEN /\ StageReturn("err_outside")
               /\ UNCHANGED <<memIndex, stK, diskIndex, writes>>
          ELSE \E ok \in BOOLEAN :
                 IF ok
                 THEN /\ memIndex' = memIndex \cup {r.rel}
                      /\ diskIndex' = memIndex \cup {r.rel}
                      /\ writes' = writes + 1
                      /\ stK' = stK + 1
                      /\ UNCHANGED <<pc, stResult>>
                 ELSE /\ StageReturn("err_add")
                      /\ UNCHANGED <<memIndex, stK, diskIndex, writes>>
    /\ UNCHANGED <<mainVars, out, exitCode, stPaths>>

\* one iteration of `for p in paths`
StageAddPath ==
    /\ pc = "stage_loop"
    /\ stK <= Len(stPaths)
    /\ LET r == RelOf(stPaths[stK], RepoPath)
       IN IF ~r.ok
          THEN /\ StageReturn("err_outside")
               /\ UNCHANGED <<memIndex, stK>>
          ELSE \E ok \in BOOLEAN :
                 IF ok
                 THEN /\ memIndex' = memIndex \cup {r.rel}
                      /\ stK' = stK + 1
                      /\ UNCHANGED <<pc, stResult>>
                 ELSE /\ StageReturn("err_add")
                      /\ UNCHANGED <<memIndex, stK>>
    /\ UNCHANGED <<mainVars, out, exitCode, stPaths, diskIndex, writes>>

\* index.write() after the loop
StageWrite ==
    /\ pc = "stage_loop"
    /\ stK > Len(stPaths)
    /\ \E ok \in BOOLEAN :
          IF ok
          THEN /\ diskIndex' = memIndex
               /\ writes' = writes + 1
               /\ StageReturn("ok")
          ELSE /\ StageReturn("err_write")
               /\ UNCHANGED <<diskIndex, writes>>
    /\ UNCHANGED <<mainVars, out, exitCode, stPaths, stK, memIndex>>

\* ------------------------------------------------------ main: after stage
Finish ==
    /\ pc = "stage_ret"
    /\ IF stResult = "ok"
       THEN Exit(0, Msg("staged", <<>>, winner, 0))
       ELSE Exit(1, Msg("error_stage", <<>>, winner, 0))
    /\ UNCHANGED <<mainVars, stageVars>>

Next ==
    \/ Usage
    \/ CollectFails
    \/ NoCandidates
    \/ Prepare
    \/ TokenNoMatch
    \/ TokenFirst
    \/ TokenRetain
    \/ Select
    \/ StageOpen
    \/ StageAddPath
    \/ StageWrite
    \/ Finish

Spec == Init /\ [][Next]_vars

\* ------------------------------- stage_paths_libgit2 called on any list
InitStage ==
    /\ pc = "stage_open"
    /\ stPaths \in SeqsUpTo(StagePathUniverse, MaxStagePaths)
    /\ tokens = <<>>
    /\ candidates = {}
    /\ scoreOf = [pr \in {} |-> 0]
    /\ i = 0
    /\ first = TRUE
    /\ cumulative = EmptyMap
    /\ token_matches = EmptyMap
    /\ winner = NoPath
    /\ out = <<>>
    /\ exitCode = -1
    /\ stK = 1
    /\ memIndex = {}
    /\ diskIndex = {}
    /\ writes = 0
    /\ stResult = "none"

NextStage ==
    \/ StageOpen
    \/ StageAddPath
    \/ StageWrite

SpecStage == InitStage /\ [][NextStage]_vars

\* ================================================================ claims
TokMap(t) == MatchList(t, candidates, scoreOf)

LastMsg == out[Len(out)]

NoMatchKinds == {"no_match_token", "no_match_after", "no_match_query"}

\* the Candidate Source was asked and failed
CollectFailed == out # <<>> /\ out[1].kind = "error_collect"

\* the positions of the tokens with an empty individual match set
FailingPositions == {k \in 1..Len(tokens) : DOMAIN TokMap(tokens[k]) = {}}

Min(S) == CHOOSE m \in S : \A n \in S : m <= n

\* the candidates every one of tokens 1..k matches
CommonMatches(k) ==
    {c \in candidates : \A j \in 1..k : c \in DOMAIN TokMap(tokens[j])}

RECURSIVE SumScores(_, _)
SumScores(c, k) ==
    IF k = 0 THEN 0 ELSE SumScores(c, k - 1) + TokMap(tokens[k])[c]

Permuted(toks) ==
    {[k \in 1..Len(toks) |-> toks[f[k]]] : f \in OrdersOf(1..Len(toks))}

\* ---- the glob predicate of the specification (shell-style `*` and `?`)
IsGlobToken(tok) == \E k \in 1..Len(tok) : tok[k] \in {42, 63, 91}

RECURSIVE GlobFrom(_, _, _, _)
GlobFrom(pat, str, pk, sk) ==
    IF pk > Len(pat) THEN sk > Len(str)
    ELSE IF pat[pk] = 42
         THEN \/ GlobFrom(pat, str, pk + 1, sk)
              \/ sk <= Len(str) /\ GlobFrom(pat, str, pk, sk + 1)
         ELSE /\ sk <= Len(str)
              /\ pat[pk] = 63 \/ pat[pk] = str[sk]
              /\ GlobFrom(pat, str, pk + 1, sk + 1)

GlobMatches(pat, str) == GlobFrom(pat, str, 1, 1)

\* the token whose matches token_matches holds, once one was computed
MatchedSome == i >= 1 \/ (out # <<>> /\ LastMsg.kind = "no_match_token")

LatestTok ==
    IF out # <<>> /\ LastMsg.kind = "no_match_token" THEN LastMsg.tok ELSE tokens[i]

\* C1 (as claimed): once a winner is selected, every other candidate of the
\* final cumulative map with the winner's score and the winner's path length
\* is lexicographically greater than the winner.
C1_LexSmallestWins ==
    winner # NoPath =>
        \A p \in DOMAIN cumulative :
            (p # winner /\ cumulative[p] = cumulative[winner] /\ Len(p) = Len(winner))
                => StrCmp(winner, p) = -1

\* C2: the selected winner is a key of the final cumulative map with the
\* maximum aggregate score, and no key with that score has a shorter path.
C2_MaxScoreMinLength ==
    winner # NoPath =>
        /\ winner \in DOMAIN cumulative
        /\ \A p \in DOMAIN cumulative :
              /\ cumulative[p] <= cumulative[winner]
              /\ cumulative[p] = cumulative[winner] => Len(winner) <= Len(p)

C2_Witness ==
    /\ winner # NoPath
    /\ \E p, q \in DOMAIN cumulative :
          /\ cumulative[p] < cumulative[winner]
          /\ q # winner
          /\ cumulative[q] = cumulative[winner]
          /\ Len(q) > Len(winner)

\* C3: after the loop has folded tokens 1..i, the keys of the cumulative map
\* are exactly the candidates every one of those tokens matched, and each
\* value is the sum of those tokens' scores for that candidate.
C3_AggregatorInvariant ==
    i >= 1 =>
        /\ DOMAIN cumulative = CommonMatches(i)
        /\ \A c \in DOMAIN cumulative : cumulative[c] = SumScores(c, i)

C3_Witness ==
    /\ i >= 2
    /\ pc = "loop"
    /\ DOMAIN cumulative # {}
    /\ DOMAIN cumulative # DOMAIN TokMap(tokens[1])
    /\ \E c \in DOMAIN cumulative : cumulative[c] > TokMap(tokens[1])[c]

\* the run has just got past the loop with a winner, or ended without one
RunMatched == pc = "stage_open"
RunNoMatch == pc = "done" /\ out # <<>> /\ LastMsg.kind \in NoMatchKinds

\* C4: whatever permutation of the tokens the fold is run on, the outcome
\* (match or no match) is the one of this run, and on a match so are the
\* surviving candidates, their aggregate scores and the winner selected.
C4_OrderIndependent ==
    (RunMatched \/ RunNoMatch) =>
        \A perm \in Permuted(tokens) :
            LET r == Aggregate(perm, candidates, scoreOf)
            IN /\ r.match <=> RunMatched
               /\ r.match =>
                    /\ r.map = cumulative
                    /\ \A items \in IterOrders(r.map) : MaxBy(items)[1] = winner

C4_Witness ==
    /\ RunMatched
    /\ Len(tokens) >= 2
    /\ tokens[1] # tokens[2]
    /\ DOMAIN TokMap(tokens[1]) # DOMAIN TokMap(tokens[2])
    /\ \E c \in DOMAIN cumulative : TokMap(tokens[1])[c] # TokMap(tokens[2])[c]

\* C5 (as claimed): the match map computed for a token that contains a glob
\* wildcard holds exactly the candidates whose path matches the glob, each
\* with score 1.
C5_GlobFilters ==
    (MatchedSome /\ IsGlobToken(LatestTok)) =>
        token_matches = [c \in {d \in candidates : GlobMatches(LatestTok, d)} |-> 1]

\* C6: with a non-empty candidate list and some token that matches no
\* candidate, nothing is ever selected or staged, and the run ends with a
\* no-match message and success.
C6_NoMatchAbsorbing ==
    (candidates # {} /\ FailingPositions # {}) =>
        /\ winner = NoPath
        /\ stPaths = <<>>
        /\ stResult = "none"
        /\ writes = 0
        /\ diskIndex = {}
        /\ (pc = "done" /\ ~CollectFailed) =>
              /\ exitCode = 0
              /\ LastMsg.kind \in NoMatchKinds

C6_Witness ==
    /\ pc = "done"
    /\ ~CollectFailed
    /\ Len(tokens) >= 3
    /\ FailingPositions = {2}
    /\ CommonMatches(1) # {}
    /\ \E c \in candidates : c \in DOMAIN TokMap(tokens[1]) /\ c \in DOMAIN TokMap(tokens[3])

\* C7 (as claimed): with a non-empty candidate list and some token that
\* matches no candidate, the finished run has printed a message naming such
\* a token and exited with success.
C7_NamesFailingToken ==
    (pc = "done" /\ ~CollectFailed /\ candidates # {} /\ FailingPositions # {}) =>
        /\ exitCode = 0
        /\ \E k \in 1..Len(out) :
              /\ out[k].kind = "no_match_token"
              /\ out[k].tok \in {tokens[f] : f \in FailingPositions}

\* C7 (amended): such a run exits with success after exactly one message; it
\* names the first token without matches when the tokens before it have a
\* candidate in common, and is otherwise the general message listing all
\* tokens.
C7_NamesFailingTokenWhenReached ==
    (pc = "done" /\ ~CollectFailed /\ candidates # {} /\ FailingPositions # {}) =>
        LET f == Min(FailingPositions)
        IN /\ exitCode = 0
           /\ Len(out) = 1
           /\ IF CommonMatches(f - 1) # {}
              THEN out[1].kind = "no_match_token" /\ out[1].tok = tokens[f]
              ELSE out[1].kind = "no_match_after" /\ out[1].tok = tokens

C7_Witness ==
    /\ pc = "done"
    /\ candidates # {}
    /\ Len(tokens) >= 3
    /\ FailingPositions = {3}
    /\ CommonMatches(2) # {}
    /\ tokens[1] # tokens[2]
    /\ LastMsg.kind = "no_match_token"
    /\ LastMsg.tok = tokens[3]

\* C8: the persistent index is written at most once; when it has been
\* written, all tokens had been folded into a non-empty cumulative map, the
\* winner was selected and the index holds exactly the winner; a run that
\* ended with usage, no candidates or no match has not written it.
C8_SelectBeforeMutate ==
    /\ writes <= 1
    /\ writes = 0 => diskIndex = {}
    /\ writes = 1 =>
          /\ i = Len(tokens)
          /\ DOMAIN cumulative # {}
          /\ winner # NoPath
          /\ winner = MaxBy(CHOOSE items \in IterOrders(cumulative) : TRUE)[1]
          /\ diskIndex = {winner}
    /\ (pc = "done" /\ LastMsg.kind \in NoMatchKinds \cup {"usage", "no_candidates"}) =>
          /\ writes = 0
          /\ diskIndex = {}
          /\ stResult = "none"

C8_Witness ==
    /\ pc = "done"
    /\ writes = 1
    /\ exitCode = 0
    /\ Len(tokens) >= 2
    /\ Cardinality(DOMAIN cumulative) >= 2
    /\ LastMsg.kind = "staged"
    /\ LastMsg.path = winner

\* C9: when the candidate list is empty and there are tokens, no token is
\* matched and nothing is staged; the run that obtained the empty list prints
\* only the no-candidates message and exits with success.
C9_EmptyCandidates ==
    (candidates = {} /\ tokens # <<>>) =>
        /\ pc \in {"start", "done"}
        /\ i = 0
        /\ first
        /\ winner = NoPath
        /\ stResult = "none"
        /\ writes = 0
        /\ diskIndex = {}
        /\ (pc = "done" /\ ~CollectFailed) =>
              /\ Len(out) = 1
              /\ out[1].kind = "no_candidates"
              /\ exitCode = 0

C9_Witness ==
    /\ candidates = {}
    /\ Len(tokens) >= 2
    /\ pc = "done"
    /\ exitCode = 0
    /\ LastMsg.kind = "no_candidates"

\* every path of the list is relative or lies inside the repository
StageListOk == \A k \in 1..Len(stPaths) : RelOf(stPaths[k], RepoPath).ok

\* C10: stage_paths_libgit2 writes the persistent index only as its last
\* step and only when the repository opened and every path was inside the
\* repository and added; on any error the persistent index is unchanged, and
\* on success it was written once and holds every path of the list.
C10_StageAllOrNothing ==
    /\ writes <= 1
    /\ pc # "stage_ret" => (writes = 0 /\ diskIndex = {})
    /\ pc = "stage_ret" =>
          /\ stResult # "none"
          /\ ~StageListOk => stResult # "ok"
          /\ stResult # "ok" => (writes = 0 /\ diskIndex = {})
          /\ stResult = "ok" =>
                /\ writes = 1
                /\ diskIndex = {RelOf(stPaths[k], RepoPath).rel : k \in 1..Len(stPaths)}

C10_Witness ==
    /\ pc = "stage_ret"
    /\ stResult = "err_outside"
    /\ stK >= 2
    /\ memIndex # {}
    /\ diskIndex = {}
    /\ writes = 0

====
